---- MODULE Spec2Model ----
(***************************************************************************)
(* A model of nova/compute/api.py: the ComputeAPI facade, the              *)
(* checks_instance_lock decorator, and the collaborators it calls (the     *)
(* instance store, the quota check, the image service and rpc.cast).       *)
(*                                                                         *)
(* Exceptions are modelled by the "result" of a call:                      *)
(*   "ok"                 the call returned                                *)
(*   "LockedInstance"     the raise at api.py:73 ("Instance is locked")    *)
(*   "InvalidInvocation"  the raise at api.py:67 (the bare except of the   *)
(*                        decorator: "check_instance_lock argument error") *)
(*   "NotFound"           exception.NotFound leaving the call              *)
(*   "QuotaExceeded"      quota.QuotaError (api.py:126)                    *)
(*   "KeyError"           INSTANCE_TYPES[instance_type] (api.py:165)       *)
(*   "TransportError"     rpc.cast raised                                  *)
(* Opaque pass-through fields of a record (display_name,                   *)
(* display_description, user_data, launch_time) are left out.              *)
(*                                                                         *)
(* Spec, SpecCreate, SpecBoot, SpecIds and SpecGuard take a facade call as *)
(* one step; SpecRace and SpecLockRace take it one store access at a time, *)
(* so that concurrent calls and the workers interleave with it.            *)
(***************************************************************************)
EXTENDS Integers, Sequences, FiniteSets, TLC

\* ---------------------------------------------------------------- bounds
MaxId == 1          \* records the store comes to hold in Spec
MaxCalls == 3       \* create and delete calls in one behaviour of Spec
MaxCount == 2       \* largest min_count / max_count a caller asks for, and
                    \* the records the store comes to hold in SpecCreate
MaxBatches == 1     \* create calls in one behaviour of SpecCreate
MaxThreads == 3     \* calls in one behaviour of SpecRace and SpecLockRace
MaxWrites == 2      \* create and delete calls in one behaviour of SpecIds

\* ------------------------------------------------------- program values
None == "None"                       \* Python's None, in string-valued places
NullTime == 0                        \* terminated_at of a record never terminated
scheduler_topic == "scheduler"       \* FLAGS.scheduler_topic
compute_topic == "compute"           \* FLAGS.compute_topic
vpn_image_id == "ami-vpn"            \* FLAGS.vpn_image_id
null_kernel == "aki-00000000"        \* FLAGS.null_kernel

Hosts == {"host1", "host2"}
NoHost == ""                         \* host of a record not yet placed

\* security contexts: the fields of RequestContext the code reads; a user
\* without and with the administrative role
Contexts ==
    { [user_id |-> "u1", project_id |-> "p1", is_admin |-> FALSE],
      [user_id |-> "u1", project_id |-> "p1", is_admin |-> TRUE] }

\* instance_types.INSTANCE_TYPES
INSTANCE_TYPES ==
    [ t \in {"m1.small"} |-> [memory_mb |-> 2048, vcpus |-> 1, local_gb |-> 20] ]

\* the images image_service.show knows, with the metadata the code reads
ImageStore ==
    [ i \in {"ami-1", "ami-raw", "ami-bare", "aki-1", "ari-1"} |->
        CASE i = "ami-1"   -> [kernelId |-> "aki-1", ramdiskId |-> "ari-1"]
          [] i = "ami-raw" -> [kernelId |-> null_kernel, ramdiskId |-> "ari-1"]
          [] OTHER         -> [kernelId |-> None, ramdiskId |-> None] ]

\* the key pairs db.key_pair_get knows
KeyPairs == [ k \in {"k1"} |-> [public_key |-> "ssh-rsa k1"] ]

VARIABLES
    instances,   \* the instance table: id -> record
    groups,      \* the security group table: id -> [name, project_id, ...]
    nextId,      \* next id of the instance table
    nextUid,     \* source of utils.generate_uid / utils.generate_mac values
    now,         \* datetime.utcnow(); time passes between two calls
    ncalls,      \* number of calls made that write to the store
    last,        \* the last facade call: its arguments and its outcome
    threads      \* the calls that run concurrently, step by step

vars == <<instances, groups, nextId, nextUid, now, ncalls, last, threads>>

\* ------------------------------------------------------------ the store
\* db.instance_get_by_internal_id: the ids of the records with that
\* internal_id (internal_id is unique, so at most one)
instance_get_by_internal_id(store, internal_id) ==
    { id \in DOMAIN store : store[id].internal_id = internal_id }

\* db.instance_update(context, instance_id, values)
instance_update(store, id, values) ==
    [ store EXCEPT ![id] =
        [ f \in DOMAIN store[id] |->
            IF f \in DOMAIN values THEN values[f] ELSE store[id][f] ] ]

\* db.instance_destroy(context, instance_id)
instance_destroy(store, id) ==
    [ i \in DOMAIN store \ {id} |-> store[i] ]

\* db.instance_create(context, values): the store adds id and internal_id
instance_create(store, id, internal_id, values) ==
    [ i \in DOMAIN store \cup {id} |->
        IF i = id
        THEN [ f \in DOMAIN values \cup
                     {"id", "internal_id", "host", "state", "terminated_at",
                      "hostname", "security_groups"} |->
                 CASE f = "id"              -> id
                   [] f = "internal_id"     -> internal_id
                   [] f = "host"            -> NoHost
                   [] f = "state"           -> 0
                   [] f = "terminated_at"   -> NullTime
                   [] f = "hostname"        -> None
                   [] f = "security_groups" -> {}
                   [] OTHER                 -> values[f] ]
        ELSE store[i] ]

\* db.instance_add_security_group(context, instance_id, security_group_id)
instance_add_security_group(store, id, group_id) ==
    [ store EXCEPT ![id].security_groups = @ \cup {group_id} ]

\* db.security_group_get_by_name(context, project_id, name)
security_group_get_by_name(grps, project_id, name) ==
    { g \in DOMAIN grps : grps[g].project_id = project_id /\ grps[g].name = name }

\* db.security_group_create(context, values)
security_group_create(grps, values) ==
    LET g == Cardinality(DOMAIN grps) + 1
    IN  [ i \in DOMAIN grps \cup {g} |-> IF i = g THEN values ELSE grps[i] ]

\* db.queue_get_for(context, topic, physical_node_id)
queue_get_for(topic, host) == topic \o "." \o host

\* the message rpc.cast is given
Message(topic, method, instance_id) ==
    [topic |-> topic, method |-> method, instance_id |-> instance_id]

\* ------------------------------------------------------- the lock guard
\* ComputeAPI.get_lock(context, instance_id): the locked flag of the record
\* with that internal_id; <<"NotFound">> when get_instance raises
get_lock(store, instance_id) ==
    LET found == instance_get_by_internal_id(store, instance_id)
    IN  IF found = {} THEN <<"NotFound">>
        ELSE <<"ok", store[CHOOSE id \in found : TRUE].locked>>

\* the guard without its test of the flag
checks_instance_lock_unlocked(store, context, instance_id) ==
    LET l == get_lock(store, instance_id)
    IN  IF l[1] # "ok" THEN "InvalidInvocation" ELSE "pass"

\* checks_instance_lock.decorated_function, up to the call of the wrapped
\* function: "pass" when the function is called, else the error raised
checks_instance_lock(store, context, instance_id) ==
    LET l == get_lock(store, instance_id)
    IN  IF l[1] # "ok" THEN "InvalidInvocation"
        ELSE IF context.is_admin \/ ~l[2] THEN "pass"
        ELSE "LockedInstance"

\* ComputeAPI.update_instance under its decorator: the guard looks the
\* instance_id up with get_lock, the body hands it to db.instance_update
update_instance(store, context, instance_id, values) ==
    LET g == checks_instance_lock(store, context, instance_id)
    IN  IF g # "pass" THEN [result |-> g, instances |-> store]
        ELSE [result |-> "ok",
              instances |-> instance_update(store, instance_id, values)]

\* a context object without the is_admin attribute
MalformedContext == [user_id |-> "u1", project_id |-> "p1"]

\* the decorator that takes a context without is_admin for a
\* non-administrative one
decorated_function_no_admin(store, args, kwargs) ==
    LET has_context == "context" \in DOMAIN kwargs \/ Len(args) >= 2
        has_instance_id == "instance_id" \in DOMAIN kwargs \/ Len(args) >= 3
    IN  IF ~has_context \/ ~has_instance_id THEN "InvalidInvocation"
        ELSE
          LET context == IF "context" \in DOMAIN kwargs THEN kwargs.context ELSE args[2]
              instance_id == IF "instance_id" \in DOMAIN kwargs THEN kwargs.instance_id
                             ELSE args[3]
              l == get_lock(store, instance_id)
          IN  IF l[1] # "ok" THEN "InvalidInvocation"
              ELSE IF "is_admin" \notin DOMAIN context
              THEN (IF l[2] THEN "LockedInstance" ELSE "pass")
              ELSE checks_instance_lock(store, context, instance_id)

\* checks_instance_lock.decorated_function(*args, **kwargs), api.py:55-73,
\* with the extraction of its arguments: args are the positional arguments
\* (args[1] is self, so Python's args[1] is args[2] here), kwargs the named
\* ones. Any exception in the try block (an IndexError of args, NotFound of
\* get_lock, an AttributeError of context.is_admin) raises at api.py:67
decorated_function(store, args, kwargs) ==
    LET has_context == "context" \in DOMAIN kwargs \/ Len(args) >= 2
        has_instance_id == "instance_id" \in DOMAIN kwargs \/ Len(args) >= 3
    IN  IF ~has_context \/ ~has_instance_id THEN "InvalidInvocation"
        ELSE
          LET context == IF "context" \in DOMAIN kwargs THEN kwargs.context ELSE args[2]
              instance_id == IF "instance_id" \in DOMAIN kwargs THEN kwargs.instance_id
                             ELSE args[3]
              l == get_lock(store, instance_id)
          IN  IF l[1] # "ok" THEN "InvalidInvocation"
              ELSE IF "is_admin" \notin DOMAIN context THEN "InvalidInvocation"
              ELSE checks_instance_lock(store, context, instance_id)

\* ----------------------------------------------------------- call record
NoArgs ==
    [instance_type |-> None, image_id |-> None, min_count |-> 0,
     max_count |-> 0, allowed |-> 0, kernel_id |-> None, ramdisk_id |-> None,
     key_name |-> None, key_data |-> None,
     security_group |-> [kind |-> "None", name |-> None, names |-> <<>>]]

CallRecord(op, context, instance_id, args, result, casts, created) ==
    [op |-> op, is_admin |-> context.is_admin, instance_id |-> instance_id,
     args |-> args, result |-> result, casts |-> casts, created |-> created]

\* what last holds when the last step was not a facade call
NoCall(op) ==
    [op |-> op, is_admin |-> FALSE, instance_id |-> 0, args |-> NoArgs,
     result |-> "ok", casts |-> <<>>, created |-> <<>>]

\* rpc.cast(context, topic, msg): fire and forget; the transport takes the
\* message (accepted) or raises. The messages a call hands to rpc.cast are
\* its casts; the last of them is the one that may have raised
rpc_cast(accepted) == IF accepted THEN "ok" ELSE "TransportError"

\* ------------------------------------------------ per-instance dispatches
\* a message that carries the caller's identifier instead of the record's id
cast_to_compute_internal_id(store, instance_id, method) ==
    LET instance == store[CHOOSE id \in instance_get_by_internal_id(store, instance_id) : TRUE]
        host == instance.host
    IN  Message(queue_get_for(compute_topic, host), method, instance.internal_id)

\* the body shared by reboot, pause, unpause, suspend, resume, rescue and
\* unrescue: fetch by internal_id, cast <method> to the host's compute queue
cast_to_compute(store, instance_id, method) ==
    LET instance == store[CHOOSE id \in instance_get_by_internal_id(store, instance_id) : TRUE]
        host == instance.host
    IN  Message(queue_get_for(compute_topic, host), method, instance.id)

\* a verb decorated with checks_instance_lock
GuardedVerb(op, method, context, instance_id, accepted) ==
    LET g == checks_instance_lock(instances, context, instance_id)
    IN  /\ g # "pass" => accepted          \* no cast is made: one such step
        /\ last' = IF g # "pass"
                   THEN CallRecord(op, context, instance_id, NoArgs, g, <<>>, <<>>)
                   ELSE CallRecord(op, context, instance_id, NoArgs, rpc_cast(accepted),
                                   << cast_to_compute(instances, instance_id, method) >>, <<>>)
        /\ UNCHANGED <<instances, groups, nextId, nextUid, now, ncalls, threads>>

\* lock / unlock that also write the flag in the store
UnguardedVerb_sets_flag(op, method, context, instance_id, accepted) ==
    /\ instance_get_by_internal_id(instances, instance_id) = {} => accepted
    /\ last' = IF instance_get_by_internal_id(instances, instance_id) = {}
               THEN CallRecord(op, context, instance_id, NoArgs, "NotFound", <<>>, <<>>)
               ELSE CallRecord(op, context, instance_id, NoArgs, rpc_cast(accepted),
                               << cast_to_compute(instances, instance_id, method) >>, <<>>)
    /\ instances' = [ id \in DOMAIN instances |->
                        IF instances[id].internal_id = instance_id
                        THEN [instances[id] EXCEPT !.locked = (op = "lock")]
                        ELSE instances[id] ]
    /\ UNCHANGED <<groups, nextId, nextUid, now, ncalls, threads>>

\* a verb without the decorator (lock, unlock): get_instance raises NotFound
UnguardedVerb(op, method, context, instance_id, accepted) ==
    /\ instance_get_by_internal_id(instances, instance_id) = {} => accepted
                                          \* no cast is made: one such step
    /\ last' = IF instance_get_by_internal_id(instances, instance_id) = {}
               THEN CallRecord(op, context, instance_id, NoArgs, "NotFound", <<>>, <<>>)
               ELSE CallRecord(op, context, instance_id, NoArgs, rpc_cast(accepted),
                               << cast_to_compute(instances, instance_id, method) >>, <<>>)
    /\ UNCHANGED <<instances, groups, nextId, nextUid, now, ncalls, threads>>

reboot(context, instance_id, accepted) ==
    GuardedVerb("reboot", "reboot_instance", context, instance_id, accepted)

pause(context, instance_id, accepted) ==
    GuardedVerb("pause", "pause_instance", context, instance_id, accepted)

unpause(context, instance_id, accepted) ==
    GuardedVerb("unpause", "unpause_instance", context, instance_id, accepted)

suspend(context, instance_id, accepted) ==
    GuardedVerb("suspend", "suspend_instance", context, instance_id, accepted)

resume(context, instance_id, accepted) ==
    GuardedVerb("resume", "resume_instance", context, instance_id, accepted)

rescue(context, instance_id, accepted) ==
    GuardedVerb("rescue", "rescue_instance", context, instance_id, accepted)

unrescue(context, instance_id, accepted) ==
    GuardedVerb("unrescue", "unrescue_instance", context, instance_id, accepted)

lock(context, instance_id, accepted) ==
    UnguardedVerb("lock", "lock_instance", context, instance_id, accepted)

unlock(context, instance_id, accepted) ==
    UnguardedVerb("unlock", "unlock_instance", context, instance_id, accepted)

\* a call of a decorated method with the argument vector (args, kwargs), as
\* Python makes it: reboot, and update_instance with the values given
RawCallRecord(op, args, kwargs, result, casts) ==
    [op |-> op, is_admin |-> FALSE, instance_id |-> 0,
     args |-> [args |-> args, kwargs |-> kwargs], result |-> result,
     casts |-> casts, created |-> <<>>]

\* the instance_id the call binds, once the decorator has found one
BoundInstanceId(args, kwargs) ==
    IF "instance_id" \in DOMAIN kwargs THEN kwargs.instance_id ELSE args[3]

\* api.py:302-310 under api.py:55-73
invoke_reboot(args, kwargs, accepted) ==
    LET g == decorated_function(instances, args, kwargs)
    IN  /\ g # "pass" => accepted          \* no cast is made: one such step
        /\ last' = IF g # "pass"
                   THEN RawCallRecord("invoke_reboot", args, kwargs, g, <<>>)
                   ELSE RawCallRecord("invoke_reboot", args, kwargs, rpc_cast(accepted),
                            << cast_to_compute(instances, BoundInstanceId(args, kwargs),
                                               "reboot_instance") >>)
        /\ UNCHANGED <<instances, groups, nextId, nextUid, now, ncalls, threads>>

\* api.py:240-253 under api.py:55-73: db.instance_update raises NotFound
\* when no record has the id
invoke_update_instance(args, kwargs, values) ==
    LET g == decorated_function(instances, args, kwargs)
        id == BoundInstanceId(args, kwargs)
    IN  /\ instances' = IF g = "pass" /\ id \in DOMAIN instances
                        THEN instance_update(instances, id, values)
                        ELSE instances
        /\ last' = RawCallRecord("invoke_update_instance", args, kwargs,
                                 IF g # "pass" THEN g
                                 ELSE IF id \in DOMAIN instances THEN "ok"
                                 ELSE "NotFound", <<>>)
        /\ UNCHANGED <<groups, nextId, nextUid, now, ncalls, threads>>

\* ------------------------------------------------------------------ delete
\* ComputeAPI.delete_instance under its decorator, as a function of the
\* store: the new store, the casts made and the result
delete_instance(store, context, instance_id, utcnow) ==
    LET g == checks_instance_lock(store, context, instance_id)
    IN  IF g # "pass"
        THEN [result |-> g, instances |-> store, casts |-> <<>>]
        ELSE
          LET instance == store[CHOOSE id \in instance_get_by_internal_id(store, instance_id) : TRUE]
          IN  IF instance.state_description = "terminating"
              THEN [result |-> "ok", instances |-> store, casts |-> <<>>]
              ELSE
                LET u == update_instance(store, context, instance.id,
                            [state_description |-> "terminating", state |-> 0,
                             terminated_at |-> utcnow])
                IN  IF u.result # "ok"
                    THEN [result |-> u.result, instances |-> u.instances, casts |-> <<>>]
                    ELSE IF instance.host # NoHost
                    THEN [result |-> "ok", instances |-> u.instances,
                          casts |-> << Message(queue_get_for(compute_topic, instance.host),
                                               "terminate_instance", instance.id) >>]
                    ELSE [result |-> "ok",
                          instances |-> instance_destroy(u.instances, instance.id),
                          casts |-> <<>>]

delete(context, instance_id, accepted) ==
    \E d \in { delete_instance(instances, context, instance_id, now) } :
        /\ d.casts = <<>> => accepted      \* no cast is made: one such step
        /\ ncalls' = ncalls + 1
        /\ now' = now + 1
        /\ instances' = d.instances
        /\ last' = CallRecord("delete", context, instance_id, NoArgs,
                              IF d.casts = <<>> THEN d.result ELSE rpc_cast(accepted),
                              d.casts, <<>>)
        /\ UNCHANGED <<groups, nextId, nextUid, threads>>

\* ------------------------------------------------------------------ create
\* str() of a non-negative integer
RECURSIVE str(_)
str(n) ==
    LET digits == <<"0", "1", "2", "3", "4", "5", "6", "7", "8", "9">>
    IN  IF n < 10 THEN digits[n + 1] ELSE str(n \div 10) \o digits[(n % 10) + 1]

generate_default_hostname(internal_id) == str(internal_id)

\* Python truthiness of an optional string
Truthy(x) == x # None /\ x # ""

\* x or ''
OrEmpty(x) == IF Truthy(x) THEN x ELSE ""

\* a raw image that loses its kernel but keeps its ramdisk
resolve_boot_keeps_ramdisk(image_id, kernel_id, ramdisk_id) ==
    IF image_id = vpn_image_id
    THEN [result |-> "ok", kernel_id |-> kernel_id, ramdisk_id |-> ramdisk_id]
    ELSE IF image_id \notin DOMAIN ImageStore
    THEN [result |-> "NotFound", kernel_id |-> kernel_id, ramdisk_id |-> ramdisk_id]
    ELSE
      LET image == ImageStore[image_id]
          k1 == IF kernel_id = None THEN image.kernelId ELSE kernel_id
          r1 == IF ramdisk_id = None THEN image.ramdiskId ELSE ramdisk_id
          raw == k1 = null_kernel
          k2 == IF raw THEN None ELSE k1
          r2 == r1
      IN  IF \/ Truthy(k2) /\ k2 \notin DOMAIN ImageStore
             \/ Truthy(r2) /\ r2 \notin DOMAIN ImageStore
          THEN [result |-> "NotFound", kernel_id |-> k2, ramdisk_id |-> r2]
          ELSE [result |-> "ok", kernel_id |-> k2, ramdisk_id |-> r2]

\* api.py:130-146: the kernel and ramdisk of the request, or NotFound when
\* image_service.show raises
resolve_boot(image_id, kernel_id, ramdisk_id) ==
    IF image_id = vpn_image_id
    THEN [result |-> "ok", kernel_id |-> kernel_id, ramdisk_id |-> ramdisk_id]
    ELSE IF image_id \notin DOMAIN ImageStore
    THEN [result |-> "NotFound", kernel_id |-> kernel_id, ramdisk_id |-> ramdisk_id]
    ELSE
      LET image == ImageStore[image_id]
          k1 == IF kernel_id = None THEN image.kernelId ELSE kernel_id
          r1 == IF ramdisk_id = None THEN image.ramdiskId ELSE ramdisk_id
          raw == k1 = null_kernel
          k2 == IF raw THEN None ELSE k1
          r2 == IF raw THEN None ELSE r1
      IN  IF \/ Truthy(k2) /\ k2 \notin DOMAIN ImageStore
             \/ Truthy(r2) /\ r2 \notin DOMAIN ImageStore
          THEN [result |-> "NotFound", kernel_id |-> k2, ramdisk_id |-> r2]
          ELSE [result |-> "ok", kernel_id |-> k2, ramdisk_id |-> r2]

\* api.py:148-151: None, a name or a list of names, as a list of names
security_group_names(security_group) ==
    IF security_group.kind = "None" THEN <<"default">>
    ELSE IF security_group.kind # "list" THEN <<security_group.name>>
    ELSE security_group.names

\* ComputeAPI.ensure_default_security_group
ensure_default_security_group(grps, context) ==
    IF security_group_get_by_name(grps, context.project_id, "default") # {}
    THEN grps
    ELSE security_group_create(grps,
             [name |-> "default", description |-> "default",
              user_id |-> context.user_id, project_id |-> context.project_id])

\* a lookup that skips the names it does not find
resolve_security_groups_skip(grps, context, names) ==
    LET found == SelectSeq(names,
                   LAMBDA n : security_group_get_by_name(grps, context.project_id, n) # {})
    IN  [result |-> "ok",
         ids |-> [ i \in 1..Len(found) |->
                     CHOOSE g \in security_group_get_by_name(grps, context.project_id, found[i]) :
                        \A h \in security_group_get_by_name(grps, context.project_id, found[i]) : g <= h ]]

\* api.py:155-159: the ids of the named groups, or NotFound
resolve_security_groups(grps, context, names) ==
    IF \E i \in 1..Len(names) :
          security_group_get_by_name(grps, context.project_id, names[i]) = {}
    THEN [result |-> "NotFound", ids |-> <<>>]
    ELSE [result |-> "ok",
          ids |-> [ i \in 1..Len(names) |->
                      CHOOSE g \in security_group_get_by_name(grps, context.project_id, names[i]) :
                         \A h \in security_group_get_by_name(grps, context.project_id, names[i]) : g <= h ]]

\* api.py:161-163: the key data of the request, or NotFound
resolve_key(key_name, key_data) ==
    IF key_data = None /\ Truthy(key_name)
    THEN IF key_name \in DOMAIN KeyPairs
         THEN [result |-> "ok", key_data |-> KeyPairs[key_name].public_key]
         ELSE [result |-> "NotFound", key_data |-> key_data]
    ELSE [result |-> "ok", key_data |-> key_data]

\* api.py:166-184
base_options(context, args, boot, key_data, reservation_id) ==
    [reservation_id |-> reservation_id,
     image_id |-> args.image_id,
     kernel_id |-> OrEmpty(boot.kernel_id),
     ramdisk_id |-> OrEmpty(boot.ramdisk_id),
     state_description |-> "scheduling",
     user_id |-> context.user_id,
     project_id |-> context.project_id,
     instance_type |-> args.instance_type,
     memory_mb |-> INSTANCE_TYPES[args.instance_type].memory_mb,
     vcpus |-> INSTANCE_TYPES[args.instance_type].vcpus,
     local_gb |-> INSTANCE_TYPES[args.instance_type].local_gb,
     key_name |-> args.key_name,
     key_data |-> key_data,
     locked |-> FALSE]

\* api.py:200-203
RECURSIVE add_security_groups(_, _, _)
add_security_groups(store, id, ids) ==
    IF ids = <<>> THEN store
    ELSE add_security_groups(instance_add_security_group(store, id, Head(ids)), id, Tail(ids))

\* utils.generate_uid('r') and utils.generate_mac(): fresh values, drawn
\* from the counter nextUid
generate_uid(uid) == uid

generate_mac(uid) == uid

\* launch_index counted from one
instance_values_from_one(base, mac_address, num) ==
    [mac_address |-> mac_address, launch_index |-> num + 1] @@ base

\* api.py:190-192: the values of the record of iteration num
instance_values(base, mac_address, num) ==
    [mac_address |-> mac_address, launch_index |-> num] @@ base

\* one iteration that destroys its record when rpc.cast raises
create_one_rollback(st, num, context, base, security_groups, internal_id, macs, accepted) ==
    LET id == st.nextId
        values == instance_values(base, generate_mac(macs + num), num)
        s1 == instance_create(st.instances, id, internal_id, values)
        s2 == add_security_groups(s1, id, security_groups)
        u == update_instance(s2, context, id,
                 [hostname |-> generate_default_hostname(internal_id)])
        persisted == [st EXCEPT !.nextId = id + 1, !.created = Append(@, id)]
    IN  IF u.result # "ok"
        THEN [persisted EXCEPT !.instances = s2, !.result = u.result]
        ELSE [persisted EXCEPT
                !.instances = IF accepted THEN u.instances
                              ELSE instance_destroy(u.instances, id),
                !.casts = Append(@, Message(scheduler_topic, "run_instance", id)),
                !.result = rpc_cast(accepted)]

\* api.py:190-219: one iteration of the loop. st is the state of the call so
\* far, internal_id the internal id the store hands out, accepted whether
\* the transport takes the message
create_one(st, num, context, base, security_groups, internal_id, macs, accepted) ==
    LET id == st.nextId
        values == instance_values(base, generate_mac(macs + num), num)
        s1 == instance_create(st.instances, id, internal_id, values)
        s2 == add_security_groups(s1, id, security_groups)
        u == update_instance(s2, context, id,
                 [hostname |-> generate_default_hostname(internal_id)])
        persisted == [st EXCEPT !.nextId = id + 1, !.created = Append(@, id)]
    IN  IF u.result # "ok"
        THEN [persisted EXCEPT !.instances = s2, !.result = u.result]
        ELSE [persisted EXCEPT
                !.instances = u.instances,
                !.casts = Append(@, Message(scheduler_topic, "run_instance", id)),
                !.result = rpc_cast(accepted)]

\* api.py:189, the loop from iteration num on. internal_ids are the internal
\* ids the store will hand out, cast_fails the iteration (from 1) whose
\* rpc.cast raises, 0 for none; an exception ends the loop
RECURSIVE create_loop(_, _, _, _, _, _, _, _, _)
create_loop(st, num, num_instances, context, base, groups_ids, internal_ids, macs, cast_fails) ==
    IF num >= num_instances \/ st.result # "ok" THEN st
    ELSE create_loop(
           create_one(st, num, context, base, groups_ids,
                      internal_ids[num + 1], macs, cast_fails # num + 1),
           num + 1, num_instances, context, base, groups_ids,
           internal_ids, macs, cast_fails)

\* the quota test against zero instead of the caller's minimum
quota_exceeded_none(num_instances, min_count) == num_instances <= 0

\* api.py:123: the quota admits fewer instances than the caller's minimum
quota_exceeded(num_instances, min_count) == num_instances < min_count

\* ComputeAPI.create_instances as a function of the state. allowed is what
\* quota.allowed_instances returns
create_instances(st, context, args, internal_ids, cast_fails) ==
    LET num_instances == args.allowed
        boot == resolve_boot(args.image_id, args.kernel_id, args.ramdisk_id)
        grps == ensure_default_security_group(st.groups, context)
        sg == resolve_security_groups(grps, context,
                                      security_group_names(args.security_group))
        key == resolve_key(args.key_name, args.key_data)
    IN  IF quota_exceeded(num_instances, args.min_count)
        THEN [st EXCEPT !.result = "QuotaExceeded"]
        ELSE IF boot.result # "ok" THEN [st EXCEPT !.result = boot.result]
        ELSE IF sg.result # "ok" THEN [st EXCEPT !.groups = grps, !.result = sg.result]
        ELSE IF key.result # "ok" THEN [st EXCEPT !.groups = grps, !.result = key.result]
        ELSE IF args.instance_type \notin DOMAIN INSTANCE_TYPES
        THEN [st EXCEPT !.groups = grps, !.result = "KeyError"]
        ELSE create_loop(
               [st EXCEPT !.groups = grps, !.nextUid = @ + 1 + num_instances],
               0, num_instances, context,
               base_options(context, args, boot, key.key_data, generate_uid(st.nextUid)),
               sg.ids, internal_ids, st.nextUid + 1, cast_fails)

\* internal ids the store may hand out to n new records, of the pool
\* 1..max_id: distinct, and not those of records it holds
FreshInternalIds(n, max_id) ==
    { s \in [1..n -> 1..max_id] :
        /\ \A i, j \in 1..n : i # j => s[i] # s[j]
        /\ \A i \in 1..n : instance_get_by_internal_id(instances, s[i]) = {} }

create(context, args, internal_ids, cast_fails) ==
    \E c \in { create_instances(
                 [instances |-> instances, groups |-> groups,
                  nextId |-> nextId, nextUid |-> nextUid, result |-> "ok",
                  casts |-> <<>>, created |-> <<>>],
                 context, args, internal_ids, cast_fails) } :
        /\ ncalls' = ncalls + 1
        /\ now' = now + 1
        /\ instances' = c.instances
        /\ groups' = c.groups
        /\ nextId' = c.nextId
        /\ nextUid' = c.nextUid
        /\ last' = CallRecord("create", context, 0, args, c.result, c.casts, c.created)
        /\ UNCHANGED threads

\* ------------------------------------------------------------- environment
\* the scheduler places a record that waits for a host
scheduler_places(id, host) ==
    /\ instances[id].host = NoHost
    /\ instances[id].state_description = "scheduling"
    /\ instances' = [instances EXCEPT ![id].host = host]
    /\ last' = NoCall("worker")
    /\ UNCHANGED <<groups, nextId, nextUid, now, ncalls, threads>>

\* a compute worker carries out lock_instance / unlock_instance
worker_sets_lock(id, locked) ==
    /\ instances[id].locked # locked
    /\ instances' = [instances EXCEPT ![id].locked = locked]
    /\ last' = NoCall("worker")
    /\ UNCHANGED <<groups, nextId, nextUid, now, ncalls, threads>>

\* the plain request: one instance of the standard image, default group
PlainArgs ==
    [NoArgs EXCEPT !.instance_type = "m1.small", !.image_id = "ami-1",
                   !.min_count = 1, !.max_count = 1, !.allowed = 1]

\* -------------------------------------------------------- concurrent calls
\* The facade is called by concurrent API handlers that share nothing but
\* the store. A thread is one call; it takes one step per access to the
\* store, and other threads and the workers may act between two steps. What
\* a thread holds between two steps are the locals of the Python frame: the
\* record it fetched (id, host), and for the claims the messages it cast, the
\* locked flag the store held when it cast, and whether it wrote
\* terminated_at.
Threads == 1..MaxThreads

NoThread ==
    [pc |-> "idle", op |-> "none", context |-> [user_id |-> "u1", project_id |-> "p1", is_admin |-> FALSE],
     instance_id |-> 0, id |-> 0, host |-> NoHost, result |-> "ok",
     casts |-> <<>>, locked_at_cast |-> FALSE, wrote |-> FALSE]

\* thread t is the next call made
NextThread(t) ==
    /\ threads[t].pc = "idle"
    /\ \A u \in 1..(t - 1) : threads[u].pc # "idle"

Done(thread, result) == [thread EXCEPT !.pc = "done", !.result = result]

\* api.py:64-73: the decorator of reboot or delete reads the flag and decides
t_guard(t, op, context, instance_id) ==
    /\ NextThread(t)
    /\ LET g == checks_instance_lock(instances, context, instance_id)
           call == [NoThread EXCEPT !.op = op, !.context = context,
                                    !.instance_id = instance_id]
       IN  threads' = [threads EXCEPT ![t] =
                         IF g = "pass" THEN [call EXCEPT !.pc = "body"]
                         ELSE Done(call, g)]
    /\ UNCHANGED <<instances, groups, nextId, nextUid, now, ncalls, last>>

\* a body of reboot that reads the flag again before it casts
t_reboot_body_rechecks(t) ==
    /\ threads[t].pc = "body"
    /\ threads[t].op = "reboot"
    /\ LET g == checks_instance_lock(instances, threads[t].context, threads[t].instance_id)
       IN  threads' = [threads EXCEPT ![t] =
                         IF g # "pass"
                         THEN Done(@, IF g = "InvalidInvocation" THEN "NotFound" ELSE g)
                         ELSE [Done(@, "ok") EXCEPT
                                 !.casts = << cast_to_compute(instances, threads[t].instance_id,
                                                              "reboot_instance") >>,
                                 !.locked_at_cast = FALSE]]
    /\ UNCHANGED <<instances, groups, nextId, nextUid, now, ncalls, last>>

\* api.py:305-310: the body of reboot fetches the record and casts
t_reboot_body(t) ==
    /\ threads[t].pc = "body"
    /\ threads[t].op = "reboot"
    /\ LET found == instance_get_by_internal_id(instances, threads[t].instance_id)
       IN  threads' = [threads EXCEPT ![t] =
                         IF found = {} THEN Done(@, "NotFound")
                         ELSE [Done(@, "ok") EXCEPT
                                 !.casts = << cast_to_compute(instances, threads[t].instance_id,
                                                              "reboot_instance") >>,
                                 !.locked_at_cast =
                                     instances[CHOOSE id \in found : TRUE].locked]]
    /\ UNCHANGED <<instances, groups, nextId, nextUid, now, ncalls, last>>

\* api.py:258-269: delete fetches the record and tests 'terminating'
t_delete_fetch(t) ==
    /\ threads[t].pc = "body"
    /\ threads[t].op = "delete"
    /\ LET found == instance_get_by_internal_id(instances, threads[t].instance_id)
           instance == instances[CHOOSE id \in found : TRUE]
       IN  threads' = [threads EXCEPT ![t] =
                         IF found = {} THEN Done(@, "NotFound")
                         ELSE IF instance.state_description = "terminating"
                         THEN Done(@, "ok")
                         ELSE [@ EXCEPT !.pc = "update_guard", !.id = instance.id,
                                        !.host = instance.host]]
    /\ UNCHANGED <<instances, groups, nextId, nextUid, now, ncalls, last>>

\* api.py:271 and 64-73: the decorator of the nested update_instance reads
\* the flag for instance['id']
t_delete_update_guard(t) ==
    /\ threads[t].pc = "update_guard"
    /\ LET g == checks_instance_lock(instances, threads[t].context, threads[t].id)
       IN  threads' = [threads EXCEPT ![t] =
                         IF g = "pass" THEN [@ EXCEPT !.pc = "update"]
                         ELSE Done(@, g)]
    /\ UNCHANGED <<instances, groups, nextId, nextUid, now, ncalls, last>>

\* api.py:253 with the values of 273-275: db.instance_update, which raises
\* NotFound when the record is gone
t_delete_update(t) ==
    /\ threads[t].pc = "update"
    /\ IF threads[t].id \notin DOMAIN instances
       THEN /\ threads' = [threads EXCEPT ![t] = Done(@, "NotFound")]
            /\ UNCHANGED <<instances, now>>
       ELSE /\ instances' = instance_update(instances, threads[t].id,
                                [state_description |-> "terminating", state |-> 0,
                                 terminated_at |-> now])
            /\ now' = now + 1
            /\ threads' = [threads EXCEPT ![t] = [@ EXCEPT !.pc = "dispatch", !.wrote = TRUE]]
    /\ UNCHANGED <<groups, nextId, nextUid, ncalls, last>>

\* api.py:277-284: terminate_instance to the host read at the fetch, or
\* db.instance_destroy, which raises NotFound when the record is gone
t_delete_dispatch(t) ==
    /\ threads[t].pc = "dispatch"
    /\ IF threads[t].host # NoHost
       THEN /\ threads' = [threads EXCEPT ![t] =
                             [Done(@, "ok") EXCEPT
                                !.casts = << Message(queue_get_for(compute_topic, threads[t].host),
                                                     "terminate_instance", threads[t].id) >>]]
            /\ UNCHANGED instances
       ELSE IF threads[t].id \in DOMAIN instances
       THEN /\ instances' = instance_destroy(instances, threads[t].id)
            /\ threads' = [threads EXCEPT ![t] = Done(@, "ok")]
       ELSE /\ threads' = [threads EXCEPT ![t] = Done(@, "NotFound")]
            /\ UNCHANGED instances
    /\ UNCHANGED <<groups, nextId, nextUid, now, ncalls, last>>

\* api.py:121-153 and 230-233: a create of the plain request passes the quota
\* and the image lookups, then ensure_default_security_group reads the
\* 'default' group of the project
t_ensure_default_read(t, context) ==
    /\ NextThread(t)
    /\ LET call == [NoThread EXCEPT !.op = "create", !.context = context]
       IN  threads' = [threads EXCEPT ![t] =
                         IF security_group_get_by_name(groups, context.project_id, "default") # {}
                         THEN [call EXCEPT !.pc = "create_rest"]
                         ELSE [call EXCEPT !.pc = "ensure_default_create"]]
    /\ UNCHANGED <<instances, groups, nextId, nextUid, now, ncalls, last>>

\* api.py:234-238: the except branch creates the group
t_ensure_default_create(t) ==
    /\ threads[t].pc = "ensure_default_create"
    /\ groups' = security_group_create(groups,
                     [name |-> "default", description |-> "default",
                      user_id |-> threads[t].context.user_id,
                      project_id |-> threads[t].context.project_id])
    /\ threads' = [threads EXCEPT ![t] = [@ EXCEPT !.pc = "create_rest"]]
    /\ UNCHANGED <<instances, nextId, nextUid, now, ncalls, last>>

\* api.py:155-221: the rest of the call (the 'default' group exists by now)
t_create_rest(t, internal_ids) ==
    /\ threads[t].pc = "create_rest"
    /\ \E c \in { create_instances(
                     [instances |-> instances, groups |-> groups,
                      nextId |-> nextId, nextUid |-> nextUid, result |-> "ok",
                      casts |-> <<>>, created |-> <<>>],
                     threads[t].context, PlainArgs, internal_ids, 0) } :
          /\ instances' = c.instances
          /\ groups' = c.groups
          /\ nextId' = c.nextId
          /\ nextUid' = c.nextUid
          /\ threads' = [threads EXCEPT ![t] = [Done(@, c.result) EXCEPT !.casts = c.casts]]
    /\ UNCHANGED <<now, ncalls, last>>

\* ------------------------------------------------------------ behaviours

Init ==
    /\ instances = << >>
    /\ groups = << >>
    /\ nextId = 1
    /\ nextUid = 1
    /\ now = 1
    /\ ncalls = 0
    /\ last = NoCall("none")
    /\ threads = [t \in Threads |-> NoThread]

\* Spec: the lifecycle of single instances. Callers create instances one by
\* one and use every verb on them, by internal ids that address a record and
\* that address none; the scheduler and the workers act on the records.
Next ==
    \/ /\ ncalls < MaxCalls
       /\ nextId <= MaxId
       /\ \E c \in Contexts, iids \in FreshInternalIds(1, MaxId), f \in 0..1 :
            create(c, PlainArgs, iids, f)
    \/ /\ ncalls < MaxCalls
       /\ \E c \in Contexts, i \in 1..MaxId, ok \in BOOLEAN : delete(c, i, ok)
    \/ \E c \in Contexts, i \in 1..MaxId, ok \in BOOLEAN : reboot(c, i, ok)
    \/ \E c \in Contexts, i \in 1..MaxId, ok \in BOOLEAN : pause(c, i, ok)
    \/ \E c \in Contexts, i \in 1..MaxId, ok \in BOOLEAN : unpause(c, i, ok)
    \/ \E c \in Contexts, i \in 1..MaxId, ok \in BOOLEAN : suspend(c, i, ok)
    \/ \E c \in Contexts, i \in 1..MaxId, ok \in BOOLEAN : resume(c, i, ok)
    \/ \E c \in Contexts, i \in 1..MaxId, ok \in BOOLEAN : rescue(c, i, ok)
    \/ \E c \in Contexts, i \in 1..MaxId, ok \in BOOLEAN : unrescue(c, i, ok)
    \/ \E c \in Contexts, i \in 1..MaxId, ok \in BOOLEAN : lock(c, i, ok)
    \/ \E c \in Contexts, i \in 1..MaxId, ok \in BOOLEAN : unlock(c, i, ok)
    \/ \E id \in DOMAIN instances, h \in Hosts : scheduler_places(id, h)
    \/ \E id \in DOMAIN instances, l \in BOOLEAN : worker_sets_lock(id, l)

Spec == Init /\ [][Next]_vars

\* SpecCreate: batch creation. Callers create batches with every count the
\* quota may admit, with existing and missing images and security groups;
\* workers lock and unlock the records.
BatchArgs ==
    { [PlainArgs EXCEPT !.image_id = i, !.min_count = mn, !.max_count = mx,
                        !.allowed = a, !.security_group = sg] :
        i \in {"ami-1", "ami-gone"},
        mn \in 1..MaxCount, mx \in 1..MaxCount, a \in 0..MaxCount,
        sg \in { [kind |-> "None", name |-> None, names |-> <<>>],
                 [kind |-> "str", name |-> "default", names |-> <<>>],
                 [kind |-> "str", name |-> "web", names |-> <<>>],
                 [kind |-> "list", name |-> None, names |-> <<"default", "web">>] } }

NextCreate ==
    \/ /\ ncalls < MaxBatches
       /\ \E c \in Contexts, args \in BatchArgs :
            /\ args.allowed <= args.max_count
            /\ nextId + args.allowed - 1 <= MaxCount
            /\ \E iids \in FreshInternalIds(args.allowed, MaxCount), f \in 0..args.allowed :
                 create(c, args, iids, f)
    \/ \E id \in DOMAIN instances, l \in BOOLEAN : worker_sets_lock(id, l)

SpecCreate == Init /\ [][NextCreate]_vars

\* SpecBoot: the boot specification of a request. The first request of a
\* deployment creates one instance, from every image, with and without a
\* kernel, a ramdisk and a key.
BootArgs ==
    { [PlainArgs EXCEPT !.instance_type = t, !.image_id = i, !.kernel_id = k,
                        !.ramdisk_id = r, !.key_name = kn, !.key_data = kd] :
        t \in {"m1.small", "m1.none"},
        i \in {"ami-1", "ami-raw", "ami-bare", "ami-gone", vpn_image_id},
        k \in {None, "", "aki-1", "aki-gone", null_kernel},
        r \in {None, "ari-1", "ari-gone"},
        kn \in {None, "k1", "k-gone"},
        kd \in {None, "ssh-rsa own"} }

NextBoot ==
    /\ ncalls = 0
    /\ \E c \in Contexts, args \in BootArgs, iids \in FreshInternalIds(1, 2) :
         create(c, args, iids, 0)

SpecBoot == Init /\ [][NextBoot]_vars

\* SpecIds: the two identifiers of a record. As Spec, with a store that
\* hands out internal ids that differ from the ids (a record's internal id
\* is any unused one up to MaxId + 1), and without lock and unlock.
NextIds ==
    \/ /\ ncalls < MaxWrites
       /\ nextId <= MaxId
       /\ \E c \in Contexts, iids \in FreshInternalIds(1, MaxId + 1), f \in 0..1 :
            create(c, PlainArgs, iids, f)
    \/ /\ ncalls < MaxWrites
       /\ \E c \in Contexts, i \in 1..(MaxId + 1), ok \in BOOLEAN : delete(c, i, ok)
    \/ \E c \in Contexts, i \in 1..(MaxId + 1), ok \in BOOLEAN : reboot(c, i, ok)
    \/ \E c \in Contexts, i \in 1..(MaxId + 1), ok \in BOOLEAN : pause(c, i, ok)
    \/ \E c \in Contexts, i \in 1..(MaxId + 1), ok \in BOOLEAN : unpause(c, i, ok)
    \/ \E c \in Contexts, i \in 1..(MaxId + 1), ok \in BOOLEAN : suspend(c, i, ok)
    \/ \E c \in Contexts, i \in 1..(MaxId + 1), ok \in BOOLEAN : resume(c, i, ok)
    \/ \E c \in Contexts, i \in 1..(MaxId + 1), ok \in BOOLEAN : rescue(c, i, ok)
    \/ \E c \in Contexts, i \in 1..(MaxId + 1), ok \in BOOLEAN : unrescue(c, i, ok)
    \/ \E id \in DOMAIN instances, h \in Hosts : scheduler_places(id, h)
    \/ \E id \in DOMAIN instances, l \in BOOLEAN : worker_sets_lock(id, l)

SpecIds == Init /\ [][NextIds]_vars

\* SpecGuard: the decorator against every argument vector. Callers create
\* instances and call reboot and update_instance with the context and the
\* instance_id given by position, by name, or not at all, and with a context
\* that lacks is_admin; the workers lock and unlock the records.
RawCalls ==
    { [args |-> <<"self", c, i>>, kwargs |-> << >>] :
        c \in Contexts \cup {MalformedContext}, i \in 1..(MaxId + 1) }
    \cup { [args |-> <<"self", c>>, kwargs |-> [instance_id |-> i]] :
             c \in Contexts \cup {MalformedContext}, i \in 1..(MaxId + 1) }
    \cup { [args |-> <<"self">>, kwargs |-> [context |-> c, instance_id |-> i]] :
             c \in Contexts \cup {MalformedContext}, i \in 1..(MaxId + 1) }
    \cup { [args |-> <<"self", c>>, kwargs |-> << >>] : c \in Contexts }
    \cup { [args |-> <<"self">>, kwargs |-> [instance_id |-> i]] : i \in 1..(MaxId + 1) }
    \cup { [args |-> <<"self">>, kwargs |-> [context |-> c]] : c \in Contexts }
    \cup { [args |-> <<"self">>, kwargs |-> << >>] }

NextGuard ==
    \/ /\ nextId <= MaxId
       /\ \E c \in Contexts, iids \in FreshInternalIds(1, MaxId + 1) :
            create(c, PlainArgs, iids, 0)
    \/ \E r \in RawCalls, ok \in BOOLEAN : invoke_reboot(r.args, r.kwargs, ok)
    \/ \E r \in RawCalls : invoke_update_instance(r.args, r.kwargs, [hostname |-> "renamed"])
    \/ \E id \in DOMAIN instances, l \in BOOLEAN : worker_sets_lock(id, l)

SpecGuard == Init /\ [][NextGuard]_vars

\* SpecRace: concurrent calls. Callers create instances, reboot and delete
\* them, each call interleaved with the others and with the scheduler and
\* the workers. The store hands a record the internal id that equals its id.
NextRace ==
    \/ \E t \in Threads, c \in Contexts, i \in 1..2 : t_guard(t, "reboot", c, i)
    \/ \E t \in Threads, c \in Contexts, i \in 1..2 : t_guard(t, "delete", c, i)
    \/ \E t \in Threads : t_reboot_body(t)
    \/ \E t \in Threads : t_delete_fetch(t)
    \/ \E t \in Threads : t_delete_update_guard(t)
    \/ \E t \in Threads : t_delete_update(t)
    \/ \E t \in Threads : t_delete_dispatch(t)
    \/ \E t \in Threads, c \in Contexts : t_ensure_default_read(t, c)
    \/ \E t \in Threads : t_ensure_default_create(t)
    \/ \E t \in Threads : \E iids \in FreshInternalIds(1, nextId) : t_create_rest(t, iids)
    \/ \E id \in DOMAIN instances, h \in Hosts : scheduler_places(id, h)
    \/ \E id \in DOMAIN instances, l \in BOOLEAN : worker_sets_lock(id, l)

SpecRace == Init /\ [][NextRace]_vars

\* SpecLockRace: a reboot against the workers. Callers create instances and
\* reboot them while the workers lock and unlock the records.
NextLockRace ==
    \/ \E t \in Threads, c \in Contexts, i \in 1..2 : t_guard(t, "reboot", c, i)
    \/ \E t \in Threads : t_reboot_body(t)
    \/ \E t \in Threads, c \in Contexts : t_ensure_default_read(t, c)
    \/ \E t \in Threads : t_ensure_default_create(t)
    \/ \E t \in Threads : \E iids \in FreshInternalIds(1, nextId) : t_create_rest(t, iids)
    \/ \E id \in DOMAIN instances, l \in BOOLEAN : worker_sets_lock(id, l)

SpecLockRace == Init /\ [][NextLockRace]_vars

\* ------------------------------------------------------------------ claims
\* a step that is a facade call
IsCall == last'.op \notin {"none", "worker"} /\ vars' # vars

\* the record a caller's instance_id addresses, in the state before the call
Addressed(instance_id) == instance_get_by_internal_id(instances, instance_id)

TheAddressed(instance_id) == instances[CHOOSE id \in Addressed(instance_id) : TRUE]

\* the record the last call addressed, in the state after it
LastAddressed == instance_get_by_internal_id(instances, last.instance_id)

\* C1: reboot of a locked instance: a non-administrative caller gets the
\* LockedInstance error and nothing is cast; an administrative caller is let
\* through and reboot_instance is cast for the record
C1_LockedReboot ==
    [][ (/\ IsCall
         /\ last'.op = "reboot"
         /\ Addressed(last'.instance_id) # {}
         /\ TheAddressed(last'.instance_id).locked)
        => IF last'.is_admin
           THEN /\ last'.result \in {"ok", "TransportError"}
                /\ Len(last'.casts) = 1
                /\ last'.casts[1].method = "reboot_instance"
                /\ last'.casts[1].instance_id = TheAddressed(last'.instance_id).id
           ELSE /\ last'.result = "LockedInstance"
                /\ last'.casts = <<>> ]_vars

C1_Witness ==
    /\ last.op = "reboot"
    /\ ~last.is_admin
    /\ last.result = "LockedInstance"
    /\ \E id \in LastAddressed : instances[id].locked

\* C2 (as claimed): every mutating verb called by a non-administrative caller
\* on a locked instance is refused, casts nothing and changes no record
MutatingVerbs ==
    {"delete", "reboot", "pause", "unpause", "suspend", "resume", "rescue",
     "unrescue", "lock", "unlock"}

C2_Claim ==
    [][ (/\ IsCall
         /\ last'.op \in MutatingVerbs
         /\ ~last'.is_admin
         /\ Addressed(last'.instance_id) # {}
         /\ TheAddressed(last'.instance_id).locked)
        => /\ last'.result \notin {"ok", "TransportError"}
           /\ last'.casts = <<>>
           /\ instances' = instances ]_vars

\* C3 (as claimed): a delete right after a delete of the same instance that
\* returned is a no-op: it returns, casts nothing and changes no record
C3_Claim ==
    [][ (/\ IsCall
         /\ last.op = "delete" /\ last.result = "ok"
         /\ last'.op = "delete"
         /\ last'.instance_id = last.instance_id
         /\ last'.is_admin = last.is_admin)
        => /\ last'.result = "ok"
           /\ last'.casts = <<>>
           /\ instances' = instances ]_vars

\* C4: a create whose min_count exceeds what the quota admits fails with
\* QuotaExceeded, persists no record and casts nothing
C4_QuotaExceeded ==
    [][ (/\ IsCall
         /\ last'.op = "create"
         /\ last'.args.min_count > last'.args.allowed)
        => /\ last'.result = "QuotaExceeded"
           /\ instances' = instances
           /\ last'.casts = <<>> ]_vars

C4_Witness ==
    /\ last.op = "create"
    /\ last.args.min_count > last.args.allowed
    /\ last.args.allowed > 0
    /\ last.result = "QuotaExceeded"

\* C5: a create that returns, with m <= a <= n, adds exactly a records; they
\* share one reservation_id, the k-th record created has launch_index k-1,
\* and their mac_address values differ pairwise
C5_BatchShape ==
    [][ (/\ IsCall
         /\ last'.op = "create"
         /\ last'.result = "ok"
         /\ last'.args.min_count <= last'.args.allowed
         /\ last'.args.allowed <= last'.args.max_count)
        => LET a == last'.args.allowed
               new == DOMAIN instances' \ DOMAIN instances
           IN  /\ Cardinality(new) = a
               /\ \A id \in DOMAIN instances : instances'[id] = instances[id]
               /\ new = { nextId + k : k \in 0..(a - 1) }
               /\ \A k \in 0..(a - 1) : instances'[nextId + k].launch_index = k
               /\ \A i, j \in new :
                    /\ instances'[i].reservation_id = instances'[j].reservation_id
                    /\ i # j => instances'[i].mac_address # instances'[j].mac_address ]_vars

C5_Witness ==
    /\ last.op = "create"
    /\ last.result = "ok"
    /\ last.args.allowed >= 2
    /\ Len(last.created) = last.args.allowed
    /\ \A i \in 1..Len(last.created) : last.created[i] \in DOMAIN instances

\* the image of the last create is a non-VPN image whose kernelId is the
\* null kernel
LastImageIsRaw ==
    /\ last.op = "create"
    /\ last.args.image_id # vpn_image_id
    /\ last.args.image_id \in DOMAIN ImageStore
    /\ ImageStore[last.args.image_id].kernelId = null_kernel

LastPersistedBootEmpty ==
    \A i \in 1..Len(last.created) :
        /\ last.created[i] \in DOMAIN instances
        /\ instances[last.created[i]].kernel_id = ""
        /\ instances[last.created[i]].ramdisk_id = ""

\* C6 (as claimed): from an image whose kernelId is the null kernel, the
\* persisted kernel_id and ramdisk_id are empty whatever the caller supplies
C6_Claim == LastImageIsRaw => LastPersistedBootEmpty

\* C6 (amended): from an image whose kernelId is the null kernel, the
\* persisted kernel_id and ramdisk_id are empty when the caller supplies no
\* kernel_id or the null kernel itself, whatever ramdisk_id it supplies
C6_RawImage ==
    (LastImageIsRaw /\ last.args.kernel_id \in {None, null_kernel})
        => LastPersistedBootEmpty

C6_Witness ==
    /\ LastImageIsRaw
    /\ last.args.kernel_id = None
    /\ last.args.ramdisk_id = "ari-1"
    /\ last.created # <<>>
    /\ LastPersistedBootEmpty

\* the request names a group the caller's project does not have ("default"
\* is never missing: the call creates it first)
NamesMissingGroup(args, context_project) ==
    \E i \in 1..Len(security_group_names(args.security_group)) :
        LET name == security_group_names(args.security_group)[i]
        IN  /\ name # "default"
            /\ security_group_get_by_name(groups, context_project, name) = {}

\* C7 (as claimed): a create that names a group the project does not have
\* fails with NotFound, persists no record and casts nothing
C7_Claim ==
    [][ (/\ IsCall
         /\ last'.op = "create"
         /\ NamesMissingGroup(last'.args, "p1"))
        => /\ last'.result = "NotFound"
           /\ instances' = instances
           /\ last'.casts = <<>> ]_vars

\* C7 (amended): a create that the quota admits and that names a group the
\* project does not have fails with NotFound, persists no record and casts
\* nothing
C7_MissingGroup ==
    [][ (/\ IsCall
         /\ last'.op = "create"
         /\ last'.args.min_count <= last'.args.allowed
         /\ NamesMissingGroup(last'.args, "p1"))
        => /\ last'.result = "NotFound"
           /\ instances' = instances
           /\ last'.casts = <<>> ]_vars

C7_Witness ==
    /\ last.op = "create"
    /\ last.result = "NotFound"
    /\ last.args.image_id \in DOMAIN ImageStore
    /\ last.args.min_count <= last.args.allowed
    /\ last.args.allowed = 2
    /\ last.args.security_group.names = <<"default", "web">>
    /\ last.created = <<>>

\* the run_instance messages the last call cast for record id
RunInstanceCasts(id) ==
    { i \in 1..Len(last.casts) :
        /\ last.casts[i].method = "run_instance"
        /\ last.casts[i].topic = scheduler_topic
        /\ last.casts[i].instance_id = id }

\* C8 (as claimed): for every record a create persists, exactly one
\* run_instance message with its id is cast to the scheduler (stated for the
\* calls in which the transport takes every message)
C8_Claim ==
    (last.op = "create" /\ last.result # "TransportError")
        => \A i \in 1..Len(last.created) :
              Cardinality(RunInstanceCasts(last.created[i])) = 1

\* C9: when rpc.cast raises in a batch create, nothing is rolled back: the
\* record whose cast raised and the records created before it are in the
\* store in state 'scheduling'
C9_NoRollback ==
    (last.op = "create" /\ last.result = "TransportError")
        => /\ last.created # <<>>
           /\ last.casts[Len(last.casts)].instance_id = last.created[Len(last.created)]
           /\ \A i \in 1..Len(last.created) :
                /\ last.created[i] \in DOMAIN instances
                /\ instances[last.created[i]].state_description = "scheduling"

C9_Witness ==
    /\ last.op = "create"
    /\ last.result = "TransportError"
    /\ Len(last.created) = 2
    /\ \A i \in 1..2 : last.created[i] \in DOMAIN instances

\* C10 (as claimed): a per-instance dispatch goes to the compute queue of the
\* record's host when it has one, and to the scheduler queue when it has none
DispatchVerbs ==
    {"reboot", "pause", "unpause", "suspend", "resume", "rescue", "unrescue",
     "lock", "unlock"}

C10_Claim ==
    [][ (/\ IsCall
         /\ last'.op \in DispatchVerbs
         /\ last'.casts # <<>>)
        => LET host == TheAddressed(last'.instance_id).host
           IN  last'.casts[1].topic =
                 IF host # NoHost THEN queue_get_for(compute_topic, host)
                 ELSE scheduler_topic ]_vars

\* the guard lets the call through: the caller's instance_id addresses a
\* record, and the caller is administrative or the record is unlocked
Permitted ==
    /\ Addressed(last'.instance_id) # {}
    /\ last'.is_admin \/ ~TheAddressed(last'.instance_id).locked

\* C11 (as claimed): a permitted delete of an instance without a host that
\* is not terminating casts nothing, returns, and the record is gone from
\* the store
C11_Claim ==
    [][ (/\ IsCall
         /\ last'.op = "delete"
         /\ Permitted
         /\ TheAddressed(last'.instance_id).host = NoHost
         /\ TheAddressed(last'.instance_id).state_description # "terminating")
        => /\ last'.casts = <<>>
           /\ last'.result = "ok"
           /\ TheAddressed(last'.instance_id).id \notin DOMAIN instances' ]_vars

\* C12 (as claimed): a lock-guarded verb called with an instance_id that
\* addresses no record fails with NotFound and casts nothing
GuardedVerbs ==
    {"delete", "reboot", "pause", "unpause", "suspend", "resume", "rescue",
     "unrescue"}

C12_Claim ==
    [][ (/\ IsCall
         /\ last'.op \in GuardedVerbs
         /\ Addressed(last'.instance_id) = {})
        => /\ last'.result = "NotFound"
           /\ last'.casts = <<>> ]_vars

\* C13 (as claimed): once a create of a project is past
\* ensure_default_security_group, whatever the interleaving of the creates,
\* the store holds exactly one group named 'default' for the project
C13_Claim ==
    (\E t \in Threads : /\ threads[t].op = "create"
                        /\ threads[t].pc \in {"create_rest", "done"})
        => Cardinality(security_group_get_by_name(groups, "p1", "default")) = 1

\* C14: the guard is not re-checked: the body of a non-administrative reboot
\* that passed the guard casts reboot_instance for the record also when the
\* record is locked in the store at that moment
C14_StaleGuard ==
    [][ \A t \in Threads :
          (/\ threads[t].op = "reboot"
           /\ threads[t].pc = "body"
           /\ threads'[t].pc = "done"
           /\ ~threads[t].context.is_admin
           /\ Addressed(threads[t].instance_id) # {}
           /\ TheAddressed(threads[t].instance_id).locked)
          => /\ Len(threads'[t].casts) = 1
             /\ threads'[t].casts[1].method = "reboot_instance"
             /\ threads'[t].casts[1].instance_id = TheAddressed(threads[t].instance_id).id
             /\ threads'[t].locked_at_cast ]_vars

\* a non-administrative reboot has cast its message for a record that was
\* locked in the store when it cast
C14_Witness ==
    \E t \in Threads :
        /\ threads[t].op = "reboot"
        /\ threads[t].pc = "done"
        /\ ~threads[t].context.is_admin
        /\ threads[t].casts # <<>>
        /\ threads[t].locked_at_cast

\* the decorator cannot obtain the context, the instance_id or the locked
\* flag of a call with the argument vector (args, kwargs)
ExtractionFails(args, kwargs) ==
    \/ "context" \notin DOMAIN kwargs /\ Len(args) < 2
    \/ "instance_id" \notin DOMAIN kwargs /\ Len(args) < 3
    \/ "is_admin" \notin DOMAIN (IF "context" \in DOMAIN kwargs THEN kwargs.context ELSE args[2])
    \/ Addressed(IF "instance_id" \in DOMAIN kwargs THEN kwargs.instance_id ELSE args[3]) = {}

\* C15: a call for which the decorator cannot obtain the context, the
\* instance_id or the locked flag fails with the decorator's error; nothing
\* is cast and no record is written
C15_FailClosed ==
    [][ (/\ IsCall
         /\ last'.op \in {"invoke_reboot", "invoke_update_instance"}
         /\ ExtractionFails(last'.args.args, last'.args.kwargs))
        => /\ last'.result = "InvalidInvocation"
           /\ last'.casts = <<>>
           /\ instances' = instances ]_vars

\* a reboot with a context that lacks is_admin was refused although the
\* record it addresses is unlocked
C15_Witness ==
    /\ last.op = "invoke_reboot"
    /\ last.result = "InvalidInvocation"
    /\ last.args.args = <<"self", MalformedContext>>
    /\ "instance_id" \in DOMAIN last.args.kwargs
    /\ \E id \in Addressed(last.args.kwargs.instance_id) : ~instances[id].locked

\* C16 (as claimed): a permitted delete of an instance with a host that is
\* not terminating sets the record to 'terminating', state 0 and
\* terminated_at the time of the call, casts exactly one terminate_instance
\* with the record's id to the compute queue of its host, and keeps the record
C16_Claim ==
    [][ (/\ IsCall
         /\ last'.op = "delete"
         /\ Permitted
         /\ TheAddressed(last'.instance_id).host # NoHost
         /\ TheAddressed(last'.instance_id).state_description # "terminating")
        => LET r == TheAddressed(last'.instance_id)
           IN  /\ r.id \in DOMAIN instances'
               /\ instances'[r.id].state_description = "terminating"
               /\ instances'[r.id].state = 0
               /\ instances'[r.id].terminated_at = now
               /\ last'.casts = << Message(queue_get_for(compute_topic, r.host),
                                           "terminate_instance", r.id) >> ]_vars

\* C17: lock and unlock write nothing to the store: get_lock gives after the
\* call what it gave before; for a record they cast exactly one
\* lock_instance / unlock_instance message, for none they cast nothing
C17_LockFrame ==
    [][ (IsCall /\ last'.op \in {"lock", "unlock"})
        => /\ instances' = instances
           /\ groups' = groups
           /\ get_lock(instances', last'.instance_id) = get_lock(instances, last'.instance_id)
           /\ IF Addressed(last'.instance_id) = {} THEN last'.casts = <<>>
              ELSE /\ Len(last'.casts) = 1
                   /\ last'.casts[1].method = last'.op \o "_instance"
                   /\ last'.casts[1].instance_id = TheAddressed(last'.instance_id).id ]_vars

\* lock has returned for a record whose flag is still false
C17_Witness ==
    /\ last.op = "lock"
    /\ last.result = "ok"
    /\ Len(last.casts) = 1
    /\ \E id \in LastAddressed : ~instances[id].locked

\* C18: a permitted reboot, pause, unpause, suspend, resume, rescue or
\* unrescue casts exactly one message, <verb>_instance, whose instance_id is
\* the id of the record the caller's internal id addresses, and changes no
\* record
FireAndForgetVerbs ==
    {"reboot", "pause", "unpause", "suspend", "resume", "rescue", "unrescue"}

C18_OneMessage ==
    [][ (/\ IsCall
         /\ last'.op \in FireAndForgetVerbs
         /\ Permitted)
        => /\ Len(last'.casts) = 1
           /\ last'.casts[1].method = last'.op \o "_instance"
           /\ last'.casts[1].instance_id = TheAddressed(last'.instance_id).id
           /\ instances' = instances ]_vars

\* a verb was cast for a record whose id is not the caller's identifier
C18_Witness ==
    /\ last.op \in FireAndForgetVerbs
    /\ last.result = "ok"
    /\ Len(last.casts) = 1
    /\ last.casts[1].instance_id # last.instance_id
    /\ \E id \in LastAddressed : id = last.casts[1].instance_id

\* the records whose locked flag the guard reads for an instance_id
\* (api.py:64 and 396-402), and the record the wrapped update_instance
\* writes for it (api.py:253)
GuardReads(store, instance_id) == instance_get_by_internal_id(store, instance_id)

UpdateWrites(store, instance_id) == {instance_id} \cap DOMAIN store

\* C19 (as claimed): in the nested update_instance of a delete and of a
\* create, the record whose flag the guard reads is the record the update
\* writes
C19_Claim ==
    [][ IsCall =>
          /\ (/\ last'.op = "delete"
              /\ Permitted
              /\ TheAddressed(last'.instance_id).state_description # "terminating")
             => GuardReads(instances, TheAddressed(last'.instance_id).id)
                  = UpdateWrites(instances, TheAddressed(last'.instance_id).id)
          /\ last'.op = "create"
             => \A k \in 1..Len(last'.created) :
                   GuardReads(instances', last'.created[k])
                     = UpdateWrites(instances', last'.created[k]) ]_vars

\* the delete calls that cast terminate_instance for record id, and those
\* that fetched it with a host and wrote its terminated_at
TerminateCasts(id) ==
    { t \in Threads :
        \E i \in 1..Len(threads[t].casts) :
            /\ threads[t].casts[i].method = "terminate_instance"
            /\ threads[t].casts[i].instance_id = id }

TerminatedAtWrites(id) ==
    { t \in Threads : /\ threads[t].op = "delete"
                      /\ threads[t].id = id
                      /\ threads[t].host # NoHost
                      /\ threads[t].wrote }

\* C20 (as claimed): whatever the interleaving of the deletes of a placed
\* instance, at most one terminate_instance message is cast for it and its
\* terminated_at is written at most once
C20_Claim ==
    \A id \in DOMAIN instances :
        instances[id].host # NoHost
            => /\ Cardinality(TerminateCasts(id)) <= 1
               /\ Cardinality(TerminatedAtWrites(id)) <= 1

====
